---- MODULE Spec2Model ----
(***************************************************************************)
(* A model of srcstr (src/src/lib.rs): SrcStr, a reference-counted handle  *)
(* to an immutable String (rc) paired with a raw fat pointer (ptr) to the  *)
(* text currently in view.                                                 *)
(*                                                                         *)
(* Memory is modelled by address: the String buffers live in a small heap, *)
(* string literals in a static region, and a String of capacity 0 holds    *)
(* the dangling, well-aligned address the standard library gives it.       *)
(* A raw pointer is an (address, length) pair and is compared, hashed and  *)
(* subtracted as such.                                                     *)
(***************************************************************************)
EXTENDS Integers, Sequences, FiniteSets, TLC

\* ---------------------------------------------------------------- bounds
MaxHandles == 2
MaxTextLen == 2
MaxDepth == 2

\* ----------------------------------------------------------------- bytes
\* "a", "b": one-byte characters.  "L" "c": the lead and the continuation
\* byte of one two-byte character.  "?": the byte of a heap cell no String
\* owns: it is unspecified (stale text, or the allocator's own data), and
\* nothing below depends on which byte it is.
Bytes == {"a", "b", "L", "c"}
Undef == "?"

\* An unspecified byte may or may not be a continuation byte; it is taken
\* not to be one, which lets every slicing of such memory go ahead.
IsCont(b) == b = "c"

IsUtf8(t) ==
    \A k \in 1..Len(t) :
        /\ t[k] = "L" => (k < Len(t) /\ t[k + 1] = "c")
        /\ t[k] = "c" => (k > 1 /\ t[k - 1] = "L")
        /\ t[k] \in Bytes

\* The source texts: the valid strings of at most MaxTextLen bytes, up to the
\* exchange of "a" and "b".
Texts ==
    {t \in UNION {[1..n -> Bytes] : n \in 0..MaxTextLen} :
        IsUtf8(t) /\ (Len(t) > 0 => t[1] # "b")}

\* ------------------------------------------------------------- addresses
DanglingAddr == 1
StaticText == <<"n">>
StaticBase == DanglingAddr + 1
StaticEnd == StaticBase + Len(StaticText)
HeapBase == StaticEnd + 1
HeapSize == MaxTextLen
HeapAddrs == HeapBase..(HeapBase + HeapSize - 1)

Slots == 1..MaxHandles
BufIds == 1..(MaxHandles + 1)
NoHandle == [rc |-> 0]
NoBuf == [strong |-> 0]
\* What a callback of try_run / try_edit returns: Ok(()) or one of two errors.
Results == {"ok", "e1", "e2"}

VARIABLES handles, bufs, heap, stack, last

vars == <<handles, bufs, heap, stack, last>>

Live(h) == handles[h] # NoHandle
LiveBuf(b) == bufs[b] # NoBuf

\* ---------------------------------------------------------- pure helpers
Ptr(a, n) == [addr |-> a, len |-> n]

ReadMem(a) ==
    IF a \in HeapAddrs THEN heap[a]
    ELSE IF a >= StaticBase /\ a < StaticEnd THEN StaticText[a - StaticBase + 1]
    ELSE Undef

TextAt(p) == [k \in 1..p.len |-> ReadMem(p.addr + k - 1)]

Deref(s) == TextAt(s.ptr)

OwnerPtr(b) == Ptr(bufs[b].addr, bufs[b].len)

OwnerText(b) == TextAt(OwnerPtr(b))

IsCharBoundary(t, i) ==
    \/ i = 0
    \/ i = Len(t)
    \/ i < Len(t) /\ ~IsCont(t[i + 1])

ValidRange(t, i, j) ==
    /\ i <= j
    /\ j <= Len(t)
    /\ IsCharBoundary(t, i)
    /\ IsCharBoundary(t, j)

SliceFromStart(p, i, j) == Ptr(p.addr, j - i)

Slice(p, i, j) == Ptr(p.addr + i, j - i)

IsErr(r) == r # "ok"

\* ------------------------------------------------- Rc<String> and memory
FreeSlots == {h \in Slots : ~Live(h)}
NewSlot == CHOOSE h \in FreeSlots : \A g \in FreeSlots : h <= g

NewBufId(bs) ==
    CHOOSE b \in BufIds : bs[b] = NoBuf /\ \A c \in BufIds : bs[c] = NoBuf => b <= c

Occupied(bs, a) ==
    \E b \in BufIds : bs[b] # NoBuf /\ bs[b].addr <= a /\ a < bs[b].addr + bs[b].len

\* Where the allocator may put the n bytes of a new String: nowhere for an
\* empty one (capacity 0), else any run of free heap cells.
Placements(n) ==
    IF n = 0 THEN {DanglingAddr}
    ELSE {a \in HeapAddrs :
            \A k \in a..(a + n - 1) : k \in HeapAddrs /\ ~Occupied(bufs, k)}

RcNew(bs, b, a, t) == [bs EXCEPT ![b] = [addr |-> a, len |-> Len(t), strong |-> 1]]

RcClone(bs, b) == [bs EXCEPT ![b].strong = @ + 1]

RcDrop(bs, b) ==
    IF bs[b].strong = 1 THEN [bs EXCEPT ![b] = NoBuf]
    ELSE [bs EXCEPT ![b].strong = @ - 1]

HeapWrite(hp, a, t) ==
    [k \in HeapAddrs |-> IF a <= k /\ k < a + Len(t) THEN t[k - a + 1] ELSE hp[k]]

\* The heap once a holder of buffer b of bs is dropped: the last holder
\* frees the String, and its cells hold unspecified bytes from then on.
HeapFree(hp, bs, b) ==
    IF bs[b].strong = 1
    THEN [k \in HeapAddrs |->
            IF bs[b].addr <= k /\ k < bs[b].addr + bs[b].len THEN Undef ELSE hp[k]]
    ELSE hp

\* ------------------------------------------------------ SrcStr, the code
FromRc(b, a, n) == [rc |-> b, ptr |-> Ptr(a, n)]

Eq(x, y) == bufs[x.rc].addr = bufs[y.rc].addr /\ x.ptr = y.ptr

HashKey(x) == <<bufs[x.rc].addr, x.ptr>>

None == [some |-> FALSE]
Some(s, e) == [some |-> TRUE, start |-> s, end |-> e]

RangeEndInclusive(s) ==
    LET start == bufs[s.rc].addr
        end == start + bufs[s.rc].len
        ptr == s.ptr.addr
    IN  IF ptr < start \/ ptr > end
        THEN None
        ELSE Some(ptr - start, ptr - start + s.ptr.len)

RangeStartExclusive(s) ==
    LET start == bufs[s.rc].addr
        end == start + bufs[s.rc].len
        ptr == s.ptr.addr
    IN  IF ptr <= start \/ ptr >= end
        THEN None
        ELSE Some(ptr - start, ptr - start + s.ptr.len)

Range(s) ==
    LET start == bufs[s.rc].addr
        len == bufs[s.rc].len
        end == start + len
        ptr == s.ptr.addr
    IN  IF ptr < start \/ ptr >= end
        THEN None
        ELSE LET ptr_start == ptr - start
                 ptr_end == ptr_start + Len(Deref(s))
             IN  Some(ptr_start, ptr_end)

EditPtrKeep(s, target) == s

EditPtr(s, target) == [s EXCEPT !.ptr = target]

TryRunFinishKeep(s, saved, result) == s

TryRunFinish(s, saved, result) ==
    IF IsErr(result) THEN [s EXCEPT !.ptr = saved] ELSE s

SubOfOwner(s, i, j) == [s EXCEPT !.ptr = Ptr(bufs[s.rc].addr + i, j - i)]

SubOf(s, i, j) == EditPtr(s, Slice(s.ptr, i, j))

SrcSubOfView(s, i, j) == [s EXCEPT !.ptr = Ptr(s.ptr.addr + i, j - i)]

SrcSubOf(s, i, j) == [s EXCEPT !.ptr = Slice(OwnerPtr(s.rc), i, j)]

\* What a callback of edit / try_edit can leave in its &mut &str: a slice of
\* the text it was given, or a slice of a string literal.
Offsets == 0..MaxTextLen

Narrowings(s) ==
    {Slice(s.ptr, r[1], r[2]) : r \in
        {r \in Offsets \X Offsets : ValidRange(Deref(s), r[1], r[2])}}

StaticSlices ==
    {Slice(Ptr(StaticBase, Len(StaticText)), r[1], r[2]) : r \in
        {r \in Offsets \X Offsets : ValidRange(StaticText, r[1], r[2])}}

EditTargets(s) == Narrowings(s) \cup StaticSlices

Did(op, res) == [op |-> op, res |-> res]

\* ----------------------------------------------------------------- state
Init ==
    /\ handles = [h \in Slots |-> NoHandle]
    /\ bufs = [b \in BufIds |-> NoBuf]
    /\ heap = [a \in HeapAddrs |-> Undef]
    /\ stack = <<>>
    /\ last = Did("init", "none")

\* While a callback of try_run runs, the operations are those of the callback
\* on the SrcStr it is given.
Idle == stack = <<>>
This(h) == IF Idle THEN TRUE ELSE stack[Len(stack)].h = h

\* From<&str>, From<String>, From<Rc<String>>
From(t, a) ==
    /\ Idle
    /\ FreeSlots # {}
    /\ a \in Placements(Len(t))
    /\ LET b == NewBufId(bufs)
       IN  /\ bufs' = RcNew(bufs, b, a, t)
           /\ heap' = HeapWrite(heap, a, t)
           /\ handles' = [handles EXCEPT ![NewSlot] = FromRc(b, a, Len(t))]
    /\ last' = Did("from", "none")
    /\ UNCHANGED stack

\* #[derive(Clone)]
Clone(h) ==
    /\ Idle
    /\ Live(h)
    /\ FreeSlots # {}
    /\ handles' = [handles EXCEPT ![NewSlot] = handles[h]]
    /\ bufs' = RcClone(bufs, handles[h].rc)
    /\ last' = Did("clone", "none")
    /\ UNCHANGED <<heap, stack>>

\* a SrcStr goes out of scope
Drop(h) ==
    /\ Idle
    /\ Live(h)
    /\ handles' = [handles EXCEPT ![h] = NoHandle]
    /\ bufs' = RcDrop(bufs, handles[h].rc)
    /\ heap' = HeapFree(heap, bufs, handles[h].rc)
    /\ last' = Did("drop", "none")
    /\ UNCHANGED stack

SubInPlace(h, i, j) ==
    /\ Idle
    /\ Live(h)
    /\ FreeSlots # {}
    /\ ValidRange(Deref(handles[h]), i, j)
    /\ handles' = [handles EXCEPT ![NewSlot] = SubOf(handles[h], i, j),
                                  ![h] = SubOf(handles[h], i, j)]
    /\ bufs' = RcClone(bufs, handles[h].rc)
    /\ last' = Did("sub", "none")
    /\ UNCHANGED <<heap, stack>>

Sub(h, i, j) ==
    /\ Idle
    /\ Live(h)
    /\ FreeSlots # {}
    /\ ValidRange(Deref(handles[h]), i, j)
    /\ handles' = [handles EXCEPT ![NewSlot] = SubOf(handles[h], i, j)]
    /\ bufs' = RcClone(bufs, handles[h].rc)
    /\ last' = Did("sub", "none")
    /\ UNCHANGED <<heap, stack>>

SrcSub(h, i, j) ==
    /\ Idle
    /\ Live(h)
    /\ FreeSlots # {}
    /\ ValidRange(OwnerText(handles[h].rc), i, j)
    /\ handles' = [handles EXCEPT ![NewSlot] = SrcSubOf(handles[h], i, j)]
    /\ bufs' = RcClone(bufs, handles[h].rc)
    /\ last' = Did("src_sub", "none")
    /\ UNCHANGED <<heap, stack>>

Edit(h, target) ==
    /\ Live(h)
    /\ This(h)
    /\ target \in EditTargets(handles[h])
    /\ handles' = [handles EXCEPT ![h] = EditPtr(@, target)]
    /\ last' = Did("edit", "none")
    /\ UNCHANGED <<bufs, heap, stack>>

\* try_edit(f) = try_run(|this| this.edit(f))
TryEdit(h, target, result) ==
    /\ Live(h)
    /\ This(h)
    /\ target \in EditTargets(handles[h])
    /\ handles' = [handles EXCEPT
                     ![h] = TryRunFinish(EditPtr(@, target), @.ptr, result)]
    /\ last' = Did("try_edit", result)
    /\ UNCHANGED <<bufs, heap, stack>>

\* range(), deref() and index() take &self and return Range(s), Deref(s) and
\* a slice of Deref(s).
Observe(h) ==
    /\ Idle
    /\ Live(h)
    /\ last' = Did("read", "none")
    /\ UNCHANGED <<handles, bufs, heap, stack>>

\* ------------------------------------------------ try_run and its callback
\* The callback f of try_run holds &mut Self: besides calling edit and
\* try_edit it can assign, *this = x, which drops the old value of *this.
\* The memory (handles, bufs, heap) after *this = SrcStr::from(t), the new
\* String put at a:
AssignNew(m, h, t, a) ==
    LET b == NewBufId(m.bufs)
        old == m.handles[h].rc
        made == RcNew(m.bufs, b, a, t)
    IN  [handles |-> [m.handles EXCEPT ![h] = FromRc(b, a, Len(t))],
         bufs |-> RcDrop(made, old),
         heap |-> HeapFree(HeapWrite(m.heap, a, t), made, old)]

\* and after *this = g.clone(), g another SrcStr the callback has captured:
AssignClone(m, h, g) ==
    LET old == m.handles[h].rc
        kept == RcClone(m.bufs, m.handles[g].rc)
    IN  [handles |-> [m.handles EXCEPT ![h] = m.handles[g]],
         bufs |-> RcDrop(kept, old),
         heap |-> HeapFree(m.heap, kept, old)]

Memory == [handles |-> handles, bufs |-> bufs, heap |-> heap]

NewOps == {[op |-> "new", t |-> t, a |-> a] : t \in Texts, a \in HeapAddrs \cup {DanglingAddr}}
CloneOps == {[op |-> "clone", g |-> g] : g \in Slots}
EditOps(s) == {[op |-> "edit", target |-> p] : p \in EditTargets(s)}

\* What one step of a callback does to *this, slot h.
CanDo(h, c) ==
    CASE c.op = "new" -> c.a \in Placements(Len(c.t))
      [] c.op = "clone" -> c.g # h /\ Live(c.g)
      [] c.op = "edit" -> c.target \in EditTargets(handles[h])

Do(m, h, c) ==
    CASE c.op = "new" -> AssignNew(m, h, c.t, c.a)
      [] c.op = "clone" -> AssignClone(m, h, c.g)
      [] c.op = "edit" -> [m EXCEPT !.handles[h] = EditPtr(@, c.target)]

\* try_run with a callback that takes one step c and returns result.
TryRun(h, c, result) ==
    /\ Idle
    /\ Live(h)
    /\ CanDo(h, c)
    /\ LET ptr == handles[h].ptr
           m == Do(Memory, h, c)
       IN  /\ handles' = [m.handles EXCEPT ![h] = TryRunFinish(@, ptr, result)]
           /\ bufs' = m.bufs
           /\ heap' = m.heap
    /\ last' = Did("try_run", result)
    /\ UNCHANGED stack

\* try_run step by step, for the callbacks that take several steps and call
\* try_run themselves.  Up to the call of f: the view is saved, f runs.
TryRunCall(h) ==
    /\ Live(h)
    /\ This(h)
    /\ Len(stack) < MaxDepth
    /\ stack' = Append(stack, [h |-> h, ptr |-> handles[h].ptr])
    /\ last' = Did("call", "none")
    /\ UNCHANGED <<handles, bufs, heap>>

\* A step of the running callback, other than edit and try_edit.
Callback(h, c) ==
    /\ ~Idle
    /\ This(h)
    /\ c.op # "edit"
    /\ CanDo(h, c)
    /\ LET m == Do(Memory, h, c)
       IN  /\ handles' = m.handles
           /\ bufs' = m.bufs
           /\ heap' = m.heap
    /\ last' = Did("assign", "none")
    /\ UNCHANGED stack

\* From the return of f with result.
TryRunReturn(result) ==
    /\ ~Idle
    /\ LET fr == stack[Len(stack)]
       IN  /\ handles' = [handles EXCEPT
                            ![fr.h] = TryRunFinish(@, fr.ptr, result)]
           /\ last' = Did("try_run", result)
    /\ stack' = SubSeq(stack, 1, Len(stack) - 1)
    /\ UNCHANGED <<bufs, heap>>

\* ------------------------------------------------------- specifications
\* A program that holds up to MaxHandles SrcStr; its try_run callbacks take
\* one step and fail in one way.
Outcomes == {"ok", "e1"}

Next ==
    \/ \E t \in Texts : \E a \in Placements(Len(t)) : From(t, a)
    \/ \E h \in Slots : Clone(h)
    \/ \E h \in Slots : Drop(h)
    \/ \E h \in Slots, i \in Offsets, j \in Offsets : Sub(h, i, j)
    \/ \E h \in Slots, i \in Offsets, j \in Offsets : SrcSub(h, i, j)
    \/ \E h \in Slots : Live(h) /\ \E target \in EditTargets(handles[h]) :
         Edit(h, target)
    \/ \E h \in Slots, result \in Outcomes :
         Live(h) /\ \E target \in EditTargets(handles[h]) :
            TryEdit(h, target, result)
    \/ \E h \in Slots, result \in Outcomes :
         Live(h) /\ \E c \in NewOps \cup CloneOps \cup EditOps(handles[h]) :
            TryRun(h, c, result)
    \/ \E h \in Slots : Observe(h)

Spec == Init /\ [][Next]_vars

\* A program that holds one SrcStr and nests its try_run calls, up to
\* MaxDepth deep, the callbacks taking any number of steps.
Solo == \A h \in Slots : ~Live(h)

NextNested ==
    \/ \E t \in Texts : \E a \in Placements(Len(t)) : Solo /\ From(t, a)
    \/ \E h \in Slots : Drop(h)
    \/ \E h \in Slots : Live(h) /\ \E target \in EditTargets(handles[h]) :
         Edit(h, target)
    \/ \E h \in Slots, result \in Results :
         Live(h) /\ \E target \in EditTargets(handles[h]) :
            TryEdit(h, target, result)
    \/ \E h \in Slots : TryRunCall(h)
    \/ \E h \in Slots, c \in NewOps : Callback(h, c)
    \/ \E result \in Results : TryRunReturn(result)

SpecNested == Init /\ [][NextNested]_vars

\* ---------------------------------------------------------------- claims
Top == stack[Len(stack)]

\* C1: try_edit and try_run are atomic on the view.  When the callback
\* returns an error the view is the one the call started with (the one
\* try_run saved when it was called, whatever the callback and the try_run
\* calls inside it did since); when it returns Ok the view is the one the
\* callback left; either way the caller gets the callback's own result.
C1_Atomic ==
    [][ /\ \A h \in Slots :
             (last'.op = "try_edit" /\ Live(h)) =>
                \A target \in EditTargets(handles[h]), result \in Results :
                    \/ /\ handles'[h].ptr =
                             IF IsErr(result) THEN handles[h].ptr ELSE target
                       /\ handles'[h].rc = handles[h].rc
                       /\ last'.res = result
                    \/ ~TryEdit(h, target, result)
        /\ \A h \in Slots :
             \/ last'.op # "call"
             \/ ~Live(h)
             \/ stack' = Append(stack, [h |-> h, ptr |-> handles[h].ptr])
             \/ ~TryRunCall(h)
        /\ \A k \in 1..Len(stack) : k <= Len(stack') => stack'[k] = stack[k]
        /\ \A result \in Results :
             \/ last'.op # "try_run"
             \/ Idle
             \/ /\ handles'[Top.h].ptr =
                      IF IsErr(result) THEN Top.ptr ELSE handles[Top.h].ptr
                /\ handles'[Top.h].rc = handles[Top.h].rc
                /\ last'.res = result
             \/ ~TryRunReturn(result)
      ]_vars

\* C1 happens: a try_run inside a try_run callback has just failed with "e2"
\* after its callback had replaced the SrcStr, and the view is again the one
\* into the String the SrcStr held before.
C1_Witness ==
    /\ Len(stack) = 1
    /\ last = Did("try_run", "e2")
    /\ handles[Top.h].ptr = Top.ptr
    /\ handles[Top.h].ptr.len > 0
    /\ handles[Top.h].ptr.addr \in HeapAddrs
    /\ Range(handles[Top.h]) = None

Attached(s) == Range(s) # None
OwnerLen(s) == bufs[s.rc].len

\* C2 as claimed: the SrcStr that src_sub(i..j) returns has range()
\* Some(i..j), for every valid i..j of the owner's text.
C2_Original ==
    [][ last'.op = "src_sub" =>
          \A o \in {NewSlot}, h \in Slots, i \in Offsets, j \in Offsets :
              \/ ~Live(h)
              \/ Range(handles[o])' = Some(i, j)
              \/ ~SrcSub(h, i, j)
      ]_vars

\* C2, amended: the SrcStr that src_sub(i..j) returns has range() Some(i..j)
\* when i is less than the length of the owner's text, and None when i is
\* that length (so for every range of an empty text).
C2_RoundTrip ==
    [][ last'.op = "src_sub" =>
          \A o \in {NewSlot}, h \in Slots, i \in Offsets, j \in Offsets :
              \/ ~Live(h)
              \/ Range(handles[o])' =
                    IF i < OwnerLen(handles[h]) THEN Some(i, j) ELSE None
              \/ ~SrcSub(h, i, j)
      ]_vars

\* C2 happens: src_sub has just returned a view of bytes 1..2 of the owner
\* from a SrcStr whose own view is a string literal.
C2_Witness ==
    /\ last.op = "src_sub"
    /\ \E g \in Slots, h \in Slots :
          /\ Live(g) /\ Live(h) /\ handles[g].rc = handles[h].rc
          /\ handles[g].ptr = Ptr(StaticBase, Len(StaticText))
          /\ Range(handles[h]) = Some(1, 2)

\* C3 as claimed: two SrcStr are equal exactly when they hold the same
\* Rc<String> allocation and the same view.
C3_Original ==
    \A g \in Slots, h \in Slots :
        (Live(g) /\ Live(h)) =>
            (Eq(handles[g], handles[h]) <=>
                (handles[g].rc = handles[h].rc /\ handles[g].ptr = handles[h].ptr))

\* C4: the text of the SrcStr that sub(i..j) returns is bytes i..j of the
\* text of the receiver's view, and its owner is the receiver's; a SrcStr
\* made from text t has the text t, its view being all of its owner.
C4_SliceConsistency ==
    [][ /\ last'.op = "sub" =>
              \A o \in {NewSlot}, h \in Slots, i \in Offsets, j \in Offsets :
                  \/ ~Live(h)
                  \/ ~ValidRange(Deref(handles[h]), i, j)
                  \/ /\ Deref(handles[o])' = SubSeq(Deref(handles[h]), i + 1, j)
                     /\ handles'[o].rc = handles[h].rc
                  \/ ~Sub(h, i, j)
        /\ last'.op = "from" =>
              \A o \in {NewSlot}, t \in Texts, a \in HeapAddrs \cup {DanglingAddr} :
                  \/ /\ Deref(handles[o])' = t
                     /\ (OwnerPtr(handles[o].rc) = handles[o].ptr)'
                  \/ ~From(t, a)
      ]_vars

\* C4 happens: sub(1..2) of a view with the text "ab" has just returned a
\* SrcStr with the text "b".
C4_Witness ==
    /\ last.op = "sub"
    /\ \E g \in Slots, h \in Slots :
          /\ Live(g) /\ Live(h) /\ handles[g].rc = handles[h].rc
          /\ Deref(handles[g]) = <<"a", "b">>
          /\ handles[h].ptr = Slice(handles[g].ptr, 1, 2)
          /\ Deref(handles[h]) = <<"b">>

\* Only edit, try_edit and try_run take a view of a SrcStr from in bounds to
\* detached.
OnlyEditsDetach ==
    \A h \in Slots :
        (/\ Live(h) /\ Live(h)'
         /\ Attached(handles[h]) /\ ~Attached(handles[h])')
            => last'.op \in {"edit", "try_edit", "try_run"}

\* C5 as claimed: every SrcStr that From, sub or src_sub returns is in bounds
\* (its range() is not None), and only edit, try_edit and try_run detach.
C5_Original ==
    [][ /\ last'.op \in {"from", "sub", "src_sub"} =>
              \A o \in {NewSlot} : Attached(handles[o])'
        /\ OnlyEditsDetach
      ]_vars

\* C5, amended: a SrcStr made from text is in bounds exactly when the text
\* is not empty; one returned by src_sub(i..j), exactly when i is less than
\* the length of the owner's text; one returned by sub(i..j) on a receiver
\* in bounds at s..e, exactly when s + i is less than that length; and only
\* edit, try_edit and try_run detach.
C5_InBounds ==
    [][ /\ last'.op = "from" =>
              \A o \in {NewSlot}, t \in Texts, a \in HeapAddrs \cup {DanglingAddr} :
                  \/ Attached(handles[o])' <=> Len(t) > 0
                  \/ ~From(t, a)
        /\ last'.op = "src_sub" =>
              \A o \in {NewSlot}, h \in Slots, i \in Offsets, j \in Offsets :
                  \/ ~Live(h)
                  \/ Attached(handles[o])' <=> i < OwnerLen(handles[h])
                  \/ ~SrcSub(h, i, j)
        /\ last'.op = "sub" =>
              \A o \in {NewSlot}, h \in Slots, i \in Offsets, j \in Offsets :
                  \/ ~Live(h)
                  \/ ~Attached(handles[h])
                  \/ Attached(handles[o])' <=>
                        Range(handles[h]).start + i < OwnerLen(handles[h])
                  \/ ~Sub(h, i, j)
        /\ OnlyEditsDetach
      ]_vars

\* C5 happens: sub has just returned a SrcStr in bounds at 1..1 from a
\* receiver in bounds at 0..1.
C5_Witness ==
    /\ last.op = "sub"
    /\ \E g \in Slots, h \in Slots :
          /\ Live(g) /\ Live(h) /\ handles[g].rc = handles[h].rc
          /\ OwnerLen(handles[g]) = 2
          /\ Range(handles[g]) = Some(0, 1)
          /\ Range(handles[h]) = Some(1, 1)

\* C6: after edit has set the view to (a slice of) a string literal, range()
\* is None, the text is that of the literal, and the owner is the String it
\* was, untouched.
C6_Detachment ==
    [][ last'.op = "edit" =>
          \A h \in Slots, target \in StaticSlices :
              \/ ~Live(h)
              \/ /\ Range(handles[h])' = None
                 /\ Deref(handles[h])' = TextAt(target)
                 /\ handles'[h].rc = handles[h].rc
                 /\ bufs' = bufs
                 /\ heap' = heap
              \/ ~Edit(h, target)
      ]_vars

\* C6 happens: edit has just set the view of a SrcStr made from "ab" to the
\* literal.
C6_Witness ==
    /\ last.op = "edit"
    /\ \E h \in Slots :
          /\ Live(h)
          /\ OwnerText(handles[h].rc) = <<"a", "b">>
          /\ Deref(handles[h]) = StaticText
          /\ Range(handles[h]) = None

\* C7: range() is None for an empty view at the owner's end, and
\* Some(d..d + len) for a view that starts d bytes into the owner's text.
C7_Boundary ==
    \A h \in Slots :
        Live(h) =>
            LET s == handles[h]
                start == bufs[s.rc].addr
                end == start + bufs[s.rc].len
            IN  /\ (s.ptr.addr = end /\ s.ptr.len = 0) => Range(s) = None
                /\ (start <= s.ptr.addr /\ s.ptr.addr < end) =>
                      Range(s) = Some(s.ptr.addr - start,
                                      s.ptr.addr - start + s.ptr.len)

\* C7 happens: src_sub has just returned the empty view at the end of an
\* owner that is not empty, and its range() is None.
C7_Witness ==
    /\ last.op = "src_sub"
    /\ \E h \in Slots :
          /\ Live(h)
          /\ OwnerLen(handles[h]) = 2
          /\ handles[h].ptr = Slice(OwnerPtr(handles[h].rc), 2, 2)
          /\ Range(handles[h]) = None

\* A view is valid when it is empty, or lies in the static text, or lies in
\* a String that has a holder.
ViewValid(s) ==
    \/ s.ptr.len = 0
    \/ StaticBase <= s.ptr.addr /\ s.ptr.addr + s.ptr.len <= StaticEnd
    \/ \E b \in BufIds :
          /\ LiveBuf(b)
          /\ bufs[b].addr <= s.ptr.addr
          /\ s.ptr.addr + s.ptr.len <= bufs[b].addr + bufs[b].len

\* C8 as claimed: the view of every SrcStr is valid.
C8_Original == \A h \in Slots : Live(h) => ViewValid(handles[h])

\* C9: narrowing a view in bounds at s..e to its bytes i..j, by sub or by
\* edit, with s + i less than the length of the owner's text, gives a view
\* in bounds at s + i..s + j.
C9_Narrowing ==
    [][ last'.op \in {"sub", "edit"} =>
          \A h \in Slots, i \in Offsets, j \in Offsets :
              \/ ~Live(h)
              \/ ~Attached(handles[h])
              \/ Range(handles[h]).start + i >= OwnerLen(handles[h])
              \/ ~ValidRange(Deref(handles[h]), i, j)
              \/ LET r == Range(handles[h])
                     to == Some(r.start + i, r.start + j)
                 IN  /\ \/ ~Sub(h, i, j)
                        \/ \A o \in {NewSlot} : Range(handles[o])' = to
                     /\ \/ Range(handles[h])' = to
                        \/ ~Edit(h, Slice(handles[h].ptr, i, j))
      ]_vars

\* C9 happens: edit has just narrowed the only view of a two-byte owner to
\* its second byte.
C9_Witness ==
    /\ last.op = "edit"
    /\ \E h \in Slots :
          /\ Live(h)
          /\ bufs[handles[h].rc].strong = 1
          /\ OwnerLen(handles[h]) = 2
          /\ Range(handles[h]) = Some(1, 2)

\* C10: clone, sub, src_sub and the reads leave every SrcStr there was, and
\* the Strings, as they were; edit and try_edit on one SrcStr leave the
\* others, its own owner and the Strings as they were; a clone equals its
\* original, and two equal SrcStr stay equal while neither changes.
C10_Frame ==
    [][ /\ last'.op \in {"clone", "sub", "src_sub", "read"} =>
              /\ \A g \in Slots : Live(g) => handles'[g] = handles[g]
              /\ heap' = heap
              /\ \A b \in BufIds : LiveBuf(b) =>
                    /\ LiveBuf(b)'
                    /\ OwnerPtr(b)' = OwnerPtr(b)
        /\ last'.op \in {"edit", "try_edit"} =>
              /\ heap' = heap
              /\ bufs' = bufs
              /\ \A h \in Slots :
                    \/ ~Live(h)
                    \/ /\ \A g \in Slots \ {h} : handles'[g] = handles[g]
                       /\ handles'[h].rc = handles[h].rc
                    \/ \A target \in EditTargets(handles[h]) :
                          IF last'.op = "edit"
                          THEN ~Edit(h, target)
                          ELSE ~TryEdit(h, target, last'.res)
        /\ last'.op = "clone" =>
              \A o \in {NewSlot}, h \in Slots :
                  \/ ~Live(h)
                  \/ Eq(handles[o], handles[h])'
                  \/ ~Clone(h)
        /\ \A g \in Slots, h \in Slots :
              (/\ Live(g) /\ Live(h)
               /\ Eq(handles[g], handles[h])
               /\ handles'[g] = handles[g] /\ handles'[h] = handles[h])
                  => Eq(handles[g], handles[h])'
      ]_vars

\* C10 happens: sub has just returned a narrower view, and the receiver still
\* views all of its owner.
C10_Witness ==
    /\ last.op = "sub"
    /\ \E g \in Slots, h \in Slots :
          /\ Live(g) /\ Live(h) /\ handles[g].rc = handles[h].rc
          /\ handles[g].ptr = OwnerPtr(handles[g].rc)
          /\ handles[h].ptr = Slice(handles[g].ptr, 0, 1)
          /\ OwnerLen(handles[g]) = 2

====
